---------------------------- MODULE Spec2Model ----------------------------
(***************************************************************************)
(* jwks-to-pem: fetch a JWKS, convert every key to PEM, write the keys to  *)
(* files named by a template, and reload a collaborating process when a    *)
(* key file was written.                                                   *)
(*                                                                         *)
(* Representation.  A string is a sequence of atoms (short TLA+ strings);  *)
(* the atom "/" is the path separator, ".." and "." are the dot atoms.  A  *)
(* path is a sequence of segments, a segment a non-empty sequence of atoms;*)
(* every path is absolute, <<>> is the root.  A byte string (DER, PEM,     *)
(* file content) is a sequence of numbers in 0 .. 3.                       *)
(***************************************************************************)
EXTENDS Integers, Sequences, FiniteSets, TLC

VARIABLES
    c,          \* the rootCommand: its flag fields, the flags given, its reloader
    pc,         \* position of the invocation
    pidfiles,   \* content of the pid file named by --reload.pidfile
    fs,         \* regular files on disk: path -> [readable, data]
    j,          \* the JWKS fetched by this run
    n,          \* WriteKeys: index of the key the loop is at (0-based, as in Go)
    keyChanged, \* WriteKeys: its keyChanged flag
    errs,       \* WriteKeys: the per-key errors recorded so far
    written,    \* paths WriteKeys created or replaced in this run, in order
    reloads,    \* reload attempts of this run, in order
    stdout,     \* what this run wrote to standard output
    stderr,     \* what this run wrote to standard error
    runErr,     \* what Run returned: "none" while running, "nil", or an error
    runs,       \* number of runs started so far
    repeat,     \* this run fetched the key set of the run before, which returned nil
    called,     \* number of calls of c.reloader.Reload() in this run
    fs0,        \* the files on disk when this run started
    sig,        \* the signal flag value under test (SpecSignal)
    sigIn,      \* signal.Set: the last argument, its error and the value before
    kc,         \* keychanged under test: its arguments and result (SpecKeychanged)
    outcome,    \* WriteKeys: what became of each key the loop has been through
    removal,    \* this run fetched the key set of the run before less some keys
    kb,         \* a JWK under test: the key, its cached data, the last result (SpecBytes)
    wr,         \* a directory and the calls of JWK.Write in progress in it (SpecWrite)
    cr          \* the cron command: its scheduler and the executions of Run (SpecCron)

vars == <<c, pc, pidfiles, fs, j, n, keyChanged, errs, written, reloads,
          stdout, stderr, runErr, runs, repeat, called, fs0, sig, sigIn, kc,
          outcome, removal, kb, wr, cr>>

-----------------------------------------------------------------------------
(* Bounds of the model. *)

MaxKeys == 2

MaxRuns == 2

MaxLen == 2

-----------------------------------------------------------------------------
(* Byte strings, hashing (imohash) and the comparison of a key with a file. *)

Bytes == 0 .. 1

RECURSIVE SeqsUpTo(_, _)
SeqsUpTo(S, k) ==
    IF k = 0 THEN {<<>>}
    ELSE LET shorter == SeqsUpTo(S, k - 1)
         IN  shorter \cup {Append(s, x) : s \in {t \in shorter : Len(t) = k - 1}, x \in S}

\* imohash's defaults: content of SampleThreshold bytes or more is sampled
\* (SampleSize bytes at the start, the middle and the end), less is hashed whole.
SampleThreshold == 128 * 1024

SampleSize == 16 * 1024

\* The digest of the hashed bytes: 0 for no bytes (murmur3 with seed 0), and
\* different for different byte strings at the sizes of this model.
RECURSIVE Digest(_)
Digest(d) == IF d = <<>> THEN 0 ELSE (d[1] + 1) + 5 * Digest(Tail(d))

\* hasher.Sum: the size of the data followed by the digest of the hashed bytes.
Sum(data) ==
    LET size == Len(data)
        mid  == size \div 2
    IN  IF size < SampleThreshold
        THEN <<size, Digest(data)>>
        ELSE <<size, Digest(SubSeq(data, 1, SampleSize)
                            \o SubSeq(data, mid + 1, mid + SampleSize)
                            \o SubSeq(data, size - SampleSize + 1, size))>>

\* the zero value of the hash array, left in currenthash when SumFile fails
ZeroHash == <<0, 0>>

Exists(files, p) == p \in DOMAIN files

\* hasher.SumFile: [err, hash]; "notexist" for a missing file, "io" for a file
\* that cannot be opened or read.
SumFile(files, p) ==
    IF ~Exists(files, p) THEN [err |-> "notexist", hash |-> ZeroHash]
    ELSE IF ~files[p].readable THEN [err |-> "io", hash |-> ZeroHash]
    ELSE [err |-> "nil", hash |-> Sum(files[p].data)]

\* keychanged returning the error of SumFile when it is not fs.ErrNotExist
keychanged_reportsError(files, current, data) ==
    LET r == SumFile(files, current)
    IN  IF r.err = "notexist"
        THEN [changed |-> TRUE, err |-> "nil"]
        ELSE IF r.err # "nil"
        THEN [changed |-> FALSE, err |-> r.err]
        ELSE [changed |-> Sum(data) # r.hash, err |-> "nil"]

\* keychanged without its fs.ErrNotExist case reporting a change
keychanged_missingUnchanged(files, current, data) ==
    LET r == SumFile(files, current)
    IN  IF r.err = "notexist"
        THEN [changed |-> FALSE, err |-> "nil"]
        ELSE [changed |-> Sum(data) # r.hash, err |-> "nil"]

\* keychanged(current, data): [changed, err]
keychanged(files, current, data) ==
    LET r == SumFile(files, current)
    IN  IF r.err = "notexist"
        THEN [changed |-> TRUE, err |-> "nil"]
        ELSE [changed |-> Sum(data) # r.hash, err |-> "nil"]

-----------------------------------------------------------------------------
(* Strings and paths. *)

Root == <<>>

\* the segments of a string: the runs of atoms between "/" atoms
RECURSIVE SplitPath(_)
SplitPath(s) ==
    IF s = <<>> THEN << <<>> >>
    ELSE LET rest == SplitPath(Tail(s))
         IN  IF Head(s) = "/"
             THEN << <<>> >> \o rest
             ELSE << <<Head(s)>> \o Head(rest) >> \o Tail(rest)

\* filepath.Clean of a rooted path: empty and "." segments are dropped, a ".."
\* segment removes the segment before it and is dropped at the root
RECURSIVE CleanFrom(_, _)
CleanFrom(stack, segs) ==
    IF segs = <<>> THEN stack
    ELSE LET s == Head(segs)
         IN  IF s = <<>> \/ s = <<".">> THEN CleanFrom(stack, Tail(segs))
             ELSE IF s = <<"..">>
             THEN CleanFrom(IF stack = <<>> THEN stack
                            ELSE SubSeq(stack, 1, Len(stack) - 1), Tail(segs))
             ELSE CleanFrom(Append(stack, s), Tail(segs))

\* filepath.Join(dir, name), dir a clean absolute path
Join(dir, name) == CleanFrom(dir, SplitPath(name))

\* filepath.Dir
Dir(p) == IF p = <<>> THEN p ELSE SubSeq(p, 1, Len(p) - 1)

\* p lies inside the directory dir (at any depth)
Inside(p, dir) == Len(p) > Len(dir) /\ SubSeq(p, 1, Len(dir)) = dir

-----------------------------------------------------------------------------
(* The naming pattern (html/template). *)

Lit(s) == [t |-> "lit", v |-> s]

Field(f) == [t |-> "field", v |-> <<f>>]

\* "{{ .KeyID }}.pem", the default of --pattern
PatKeyID == [wellFormed |-> TRUE, parts |-> <<Field("KeyID"), Lit(<<".pem">>)>>]

\* "k{{ .Index }}.pem"
PatIndex == [wellFormed |-> TRUE, parts |-> <<Lit(<<"k">>), Field("Index"), Lit(<<".pem">>)>>]

\* "key.pem": no field of the key
PatConst == [wellFormed |-> TRUE, parts |-> <<Lit(<<"key.pem">>)>>]

\* "{{ .Name }}.pem": parses, names no field of the data
PatNoField == [wellFormed |-> TRUE, parts |-> <<Field("Name"), Lit(<<".pem">>)>>]

\* "{{ .KeyID ": does not parse
PatUnparsed == [wellFormed |-> FALSE, parts |-> <<Lit(<<"{{">>), Lit(<<".KeyID">>)>>]

Patterns == {PatKeyID, PatIndex, PatConst, PatNoField, PatUnparsed}

\* template.New("pattern").Parse
Parse(pattern) == IF pattern.wellFormed THEN "nil" ELSE "parse"

\* the HTML escaper html/template applies to a value in text context
HTMLEscape(atom) ==
    CASE atom = "+" -> "&#43;"
      [] atom = "<" -> "&lt;"
      [] atom = ">" -> "&gt;"
      [] atom = "&" -> "&amp;"
      [] OTHER -> atom

EscapeAll(s) == [i \in 1 .. Len(s) |-> HTMLEscape(s[i])]

\* t.Execute(name, struct{Index int; KeyID string}): [err, name]
RECURSIVE ExecParts(_, _, _)
ExecParts(parts, index, keyID) ==
    IF parts = <<>> THEN [err |-> "nil", name |-> <<>>]
    ELSE LET p    == Head(parts)
             rest == ExecParts(Tail(parts), index, keyID)
             out  == IF p.t = "lit" THEN p.v
                     ELSE IF p.v = <<"Index">> THEN <<ToString(index)>>
                     ELSE EscapeAll(keyID)
         IN  IF p.t = "field" /\ p.v \notin {<<"Index">>, <<"KeyID">>}
             THEN [err |-> "exec", name |-> <<>>]
             ELSE [err |-> rest.err, name |-> out \o rest.name]

Execute(pattern, index, keyID) == ExecParts(pattern.parts, index, keyID)

-----------------------------------------------------------------------------
(* Keys and their PEM encoding. *)

RSAAlgs == {"RS256", "RS384", "RS512"}

ECAlgs == {"ES256", "ES384", "ES512"}

KA == [kid |-> <<"a">>, alg |-> "RS256", key |-> "rsa", mat |-> <<0>>]

\* the key "a" after a rotation: same key ID, new material
KA2 == [kid |-> <<"a">>, alg |-> "RS256", key |-> "rsa", mat |-> <<1>>]

KB == [kid |-> <<"b", "+">>, alg |-> "ES256", key |-> "ecdsa", mat |-> <<0>>]

\* a symmetric key: no public-key algorithm
KH == [kid |-> <<"h">>, alg |-> "HS256", key |-> "oct", mat |-> <<1>>]

\* a key whose ID leads out of the directory it is joined to
KUp == [kid |-> <<"..", "/", "x">>, alg |-> "RS256", key |-> "rsa", mat |-> <<0>>]

Keys == {KA, KA2, KB, KH, KUp}

\* x509.MarshalPKIXPublicKey: the algorithm identifier, then the key material
MarshalPKIXPublicKey(k) == <<IF k.key = "rsa" THEN 2 ELSE 3>> \o k.mat

\* JWK.Bytes without the type assertions on the key
KeyBytes_anyKey(k) ==
    IF k.alg \in RSAAlgs \cup ECAlgs
    THEN [err |-> "nil", data |-> MarshalPKIXPublicKey(k)]
    ELSE [err |-> "ErrUnsupportedAlgorithm", data |-> <<>>]

\* JWK.Bytes: [err, data]
KeyBytes(k) ==
    IF k.alg \in RSAAlgs
    THEN IF k.key = "rsa" THEN [err |-> "nil", data |-> MarshalPKIXPublicKey(k)]
         ELSE [err |-> "ErrNotRSAPublicKey", data |-> <<>>]
    ELSE IF k.alg \in ECAlgs
    THEN IF k.key = "ecdsa" THEN [err |-> "nil", data |-> MarshalPKIXPublicKey(k)]
         ELSE [err |-> "ErrNotECDSAPublicKey", data |-> <<>>]
    ELSE [err |-> "ErrUnsupportedAlgorithm", data |-> <<>>]

\* pem.Encode of a "PUBLIC KEY" block: the armour lines around the encoded bytes
PemEncode(b) == <<3>> \o b \o <<3>>

\* JWK.PEM: [err, data]
PEM(k) ==
    LET b == KeyBytes(k)
    IN  IF b.err # "nil" THEN b ELSE [err |-> "nil", data |-> PemEncode(b.data)]

\* JWK.Changed
Changed(files, k, current) ==
    LET p == PEM(k)
    IN  IF p.err # "nil" THEN [changed |-> FALSE, err |-> p.err]
        ELSE keychanged(files, current, p.data)

-----------------------------------------------------------------------------
(* The --reload.signal flag value (type signal). *)

LowerChars == <<"e", "g", "h", "i", "k", "l", "m", "p", "r", "s", "t", "u">>

UpperChars == <<"E", "G", "H", "I", "K", "L", "M", "P", "R", "S", "T", "U">>

ToUpperChar(ch) ==
    IF \E i \in 1 .. Len(LowerChars) : LowerChars[i] = ch
    THEN UpperChars[CHOOSE i \in 1 .. Len(LowerChars) : LowerChars[i] = ch]
    ELSE ch

ToLowerChar(ch) ==
    IF \E i \in 1 .. Len(UpperChars) : UpperChars[i] = ch
    THEN LowerChars[CHOOSE i \in 1 .. Len(UpperChars) : UpperChars[i] = ch]
    ELSE ch

\* strings.ToUpper
ToUpper(s) == [i \in 1 .. Len(s) |-> ToUpperChar(s[i])]

\* signal.Set without its USR1 and USR2 cases
Set_noUSR(v, s) ==
    LET u == ToUpper(s)
    IN  IF u \in {<<"H", "U", "P">>, <<"S", "I", "G", "H", "U", "P">>}
        THEN [v |-> 1, err |-> "nil"]
        ELSE IF u \in {<<"K", "I", "L", "L">>, <<"S", "I", "G", "K", "I", "L", "L">>}
        THEN [v |-> 9, err |-> "nil"]
        ELSE [v |-> v, err |-> "unsupported signal"]

\* signal.Set on a flag value holding v: [v, err]; a signal is its number:
\* syscall.SIGHUP = 1, SIGKILL = 9, SIGUSR1 = 10, SIGUSR2 = 12
Set(v, s) ==
    LET u == ToUpper(s)
    IN  IF u \in {<<"H", "U", "P">>, <<"S", "I", "G", "H", "U", "P">>}
        THEN [v |-> 1, err |-> "nil"]
        ELSE IF u \in {<<"K", "I", "L", "L">>, <<"S", "I", "G", "K", "I", "L", "L">>}
        THEN [v |-> 9, err |-> "nil"]
        ELSE IF u \in {<<"U", "S", "R", "1">>, <<"S", "I", "G", "U", "S", "R", "1">>}
        THEN [v |-> 10, err |-> "nil"]
        ELSE IF u \in {<<"U", "S", "R", "2">>, <<"S", "I", "G", "U", "S", "R", "2">>}
        THEN [v |-> 12, err |-> "nil"]
        ELSE [v |-> v, err |-> "unsupported signal"]

\* signal.String
String(v) ==
    CASE v = 1  -> <<"S", "I", "G", "H", "U", "P">>
      [] v = 9  -> <<"S", "I", "G", "K", "I", "L", "L">>
      [] v = 10 -> <<"S", "I", "G", "U", "S", "R", "1">>
      [] v = 12 -> <<"S", "I", "G", "U", "S", "R", "2">>
      [] OTHER  -> <<"unknown signal">>

-----------------------------------------------------------------------------
(* The command line and the root command. *)

NoOutput == <<>>

OutDir == << <<"out">> >>

\* the directories that exist
Dirs == {Root, OutDir}

ReloadFlags == {"reload.url", "reload.pid", "reload.pidfile", "reload.socket"}

\* rootCommand.Init: the defaults of the flags, the signal default, no reloader
Defaults ==
    [outputPattern |-> PatKeyID, outputDir |-> NoOutput,
     reloadPid |-> 0, reloadPidfile |-> "", reloadUrl |-> "", reloadSocket |-> "",
     reloadPayload |-> "", reloadMethod |-> "POST", reloadSignal |-> 1,
     signalArg |-> <<>>, given |-> {},
     reloader |-> [kind |-> "none", target |-> "", arg |-> "", payload |-> ""]]

Out(a, dir) == [a EXCEPT !.outputDir = dir, !.given = @ \cup {"out"}]

Pat(a, p) == [a EXCEPT !.outputPattern = p, !.given = @ \cup {"pattern"}]

Pid(a, p) == [a EXCEPT !.reloadPid = p, !.given = @ \cup {"reload.pid"}]

Pidfile(a, f) == [a EXCEPT !.reloadPidfile = f, !.given = @ \cup {"reload.pidfile"}]

Url(a, u) == [a EXCEPT !.reloadUrl = u, !.given = @ \cup {"reload.url"}]

Socket(a, s) == [a EXCEPT !.reloadSocket = s, !.given = @ \cup {"reload.socket"}]

Payload(a, p) == [a EXCEPT !.reloadPayload = p, !.given = @ \cup {"reload.payload"}]

Method(a, m) == [a EXCEPT !.reloadMethod = m, !.given = @ \cup {"reload.method"}]

Signal(a, s) == [a EXCEPT !.signalArg = s, !.given = @ \cup {"reload.signal"}]

\* the reload flags of the command lines of the model
ReloadArgs ==
    {Defaults,
     Pid(Defaults, 7),
     Pid(Defaults, 0),
     Signal(Pid(Defaults, 7), <<"s", "i", "g", "u", "s", "r", "2">>),
     Signal(Pid(Defaults, 7), <<"T", "E", "R", "M">>),
     Pidfile(Defaults, "pidfile"),
     Url(Defaults, "url"),
     Method(Url(Defaults, "url"), "GET"),
     Method(Url(Defaults, "url"), "B AD"),
     Payload(Url(Defaults, "url"), "reload"),
     Payload(Socket(Defaults, "sock"), "reload"),
     Socket(Defaults, "sock"),
     Pid(Url(Defaults, "url"), 7),
     Pid(Url(Defaults, "url"), 0),
     Payload(Pid(Defaults, 7), "reload")}

\* the command lines of the model: every pattern and output with two reload
\* settings, every reload setting with the default pattern and an output directory
CmdLines ==
    {Pat(Out(a, o), p) : a \in {Defaults, Pid(Defaults, 7)},
                         o \in {NoOutput, OutDir}, p \in Patterns}
    \cup {Out(a, OutDir) : a \in ReloadArgs}

\* the flag groups without the group of the four reload options
ValidateFlagGroups_payloadOnly(given) ==
    IF "reload.payload" \in given /\ "reload.pid" \in given THEN "exclusive"
    ELSE IF "reload.payload" \in given /\ "reload.pidfile" \in given THEN "exclusive"
    ELSE IF "reload.socket" \in given /\ "reload.payload" \notin given THEN "together"
    ELSE IF "reload.payload" \in given /\ "reload.socket" \notin given THEN "together"
    ELSE "nil"

\* cobra's flag groups, as rootCommand.Init marks them: the four reload options
\* exclude each other, a payload excludes pid and pidfile, socket and payload
\* are given together or not at all
ValidateFlagGroups(given) ==
    IF Cardinality(given \cap ReloadFlags) > 1 THEN "exclusive"
    ELSE IF "reload.payload" \in given /\ "reload.pid" \in given THEN "exclusive"
    ELSE IF "reload.payload" \in given /\ "reload.pidfile" \in given THEN "exclusive"
    ELSE IF "reload.socket" \in given /\ "reload.payload" \notin given THEN "together"
    ELSE IF "reload.payload" \in given /\ "reload.socket" \notin given THEN "together"
    ELSE "nil"

-----------------------------------------------------------------------------
(* The pid file. *)

Digits == <<"0", "1", "2", "3", "4", "5", "6", "7", "8", "9">>

IsDigit(ch) == \E i \in 1 .. 10 : Digits[i] = ch

DigitVal(ch) == (CHOOSE i \in 1 .. 10 : Digits[i] = ch) - 1

IsSpace(ch) == ch \in {" ", "\n", "\t"}

\* strings.TrimSpace
RECURSIVE TrimLeft(_)
TrimLeft(s) == IF s # <<>> /\ IsSpace(Head(s)) THEN TrimLeft(Tail(s)) ELSE s

RECURSIVE TrimRight(_)
TrimRight(s) ==
    IF s # <<>> /\ IsSpace(s[Len(s)]) THEN TrimRight(SubSeq(s, 1, Len(s) - 1)) ELSE s

TrimSpace(s) == TrimRight(TrimLeft(s))

RECURSIVE DecimalValue(_)
DecimalValue(s) ==
    IF s = <<>> THEN 0
    ELSE 10 * DecimalValue(SubSeq(s, 1, Len(s) - 1)) + DigitVal(s[Len(s)])

\* strconv.Atoi on the unsigned decimals of the model: [err, v]
Atoi(s) ==
    IF s # <<>> /\ \A i \in 1 .. Len(s) : IsDigit(s[i])
    THEN [err |-> "nil", v |-> DecimalValue(s)]
    ELSE [err |-> "syntax", v |-> 0]

\* what the pid file can hold: missing, a pid and a newline, no number
PidFiles ==
    {[exists |-> FALSE, text |-> <<>>],
     [exists |-> TRUE, text |-> <<"9", "\n">>],
     [exists |-> TRUE, text |-> <<"p", "i", "d">>]}

-----------------------------------------------------------------------------
(* Reloaders. *)

NoReloader == [kind |-> "none", target |-> "", arg |-> "", payload |-> ""]

\* NewProcessReloader
NewProcessReloader(pid, signal) ==
    [kind |-> "process", target |-> ToString(pid), arg |-> ToString(signal), payload |-> ""]

\* NewProcessReloaderFromPidfile: [err, reloader]
NewProcessReloaderFromPidfile(file, signal) ==
    IF ~file.exists THEN [err |-> "could not open pid file", reloader |-> NoReloader]
    ELSE LET a == Atoi(TrimSpace(file.text))
         IN  IF a.err # "nil"
             THEN [err |-> "invalid pid from pidfile", reloader |-> NoReloader]
             ELSE [err |-> "nil", reloader |-> NewProcessReloader(a.v, signal)]

\* NewHTTPReloader
NewHTTPReloader(url, method, payload) ==
    [kind |-> "http", target |-> url, arg |-> method, payload |-> payload]

\* NewUnixSocketReloader
NewUnixSocketReloader(socket, payload) ==
    [kind |-> "socket", target |-> socket, arg |-> "", payload |-> payload]

\* the methods http.NewRequest accepts, among those of the model
ValidMethod(m) == m \in {"GET", "POST"}

HTTPStatuses == {200, 201, 204, 404, 500}

Event(r, status) ==
    [kind |-> r.kind, target |-> r.target, arg |-> r.arg, status |-> status]

\* ProcessReloader.Reload: the signal is sent; delivered tells whether the
\* process took it.  [err, sent]
ProcessReload(r, delivered) ==
    [err  |-> IF delivered THEN "nil" ELSE "reload error",
     sent |-> <<Event(r, 0)>>]

\* HTTPReloader.Reload taking every 2xx status for success
HTTPReload_any2xx(r, connected, status) ==
    IF ~ValidMethod(r.arg) THEN [err |-> "could not build request", sent |-> <<>>]
    ELSE IF ~connected THEN [err |-> "error during request", sent |-> <<Event(r, 0)>>]
    ELSE IF status < 200 \/ status > 299
    THEN [err |-> "bad response code", sent |-> <<Event(r, status)>>]
    ELSE [err |-> "nil", sent |-> <<Event(r, status)>>]

\* HTTPReloader.Reload: connected tells whether the client got a response,
\* status is the response's status code.  [err, sent]
HTTPReload(r, connected, status) ==
    IF ~ValidMethod(r.arg) THEN [err |-> "could not build request", sent |-> <<>>]
    ELSE IF ~connected THEN [err |-> "error during request", sent |-> <<Event(r, 0)>>]
    ELSE IF status # 200
    THEN [err |-> "bad response code", sent |-> <<Event(r, status)>>]
    ELSE [err |-> "nil", sent |-> <<Event(r, status)>>]

\* UnixSocketReloader.Reload: connected tells whether the dial succeeded; the
\* payload is written to the connection.  [err, sent]
UnixSocketReload(r, connected) ==
    IF ~connected THEN [err |-> "could not connect", sent |-> <<>>]
    ELSE [err |-> "nil", sent |-> <<Event(r, 0)>>]

\* Reloader.Reload
ReloaderReload(r, connected, status) ==
    CASE r.kind = "process" -> ProcessReload(r, connected)
      [] r.kind = "http"    -> HTTPReload(r, connected, status)
      [] OTHER              -> UnixSocketReload(r, connected)

-----------------------------------------------------------------------------
(* JWK.Write and one iteration of the loop of WriteKeys. *)

\* JWK.Write that empties the directory of everything but the file it writes
Write_alone(files, name, data, ioOK) ==
    IF Dir(name) \notin Dirs \/ name \in Dirs \/ ~ioOK
    THEN [err |-> "io", files |-> files]
    ELSE [err   |-> "nil",
          files |-> [p \in {q \in DOMAIN files : Dir(q) # Dir(name)} \cup {name} |->
                       IF p = name THEN [readable |-> TRUE, data |-> data]
                       ELSE files[p]]]

\* JWK.Write(name) of a key whose PEM is data; ioOK tells whether creating,
\* writing, closing and renaming the temporary file all succeed.  The temporary
\* file is created in filepath.Dir(name) and renamed onto name.  [err, files]
Write(files, name, data, ioOK) ==
    IF Dir(name) \notin Dirs \/ name \in Dirs \/ ~ioOK
    THEN [err |-> "io", files |-> files]
    ELSE [err   |-> "nil",
          files |-> [p \in DOMAIN files \cup {name} |->
                       IF p = name THEN [readable |-> TRUE, data |-> data]
                       ELSE files[p]]]

Skip(files) ==
    [files |-> files, err |-> "nil", wrote |-> <<>>, toStdout |-> <<>>, toStderr |-> <<>>]

\* the body of the loop of WriteKeys for the key jwk at index:
\* [files, err, wrote, toStdout, toStderr]; wrote holds the path of the file the
\* iteration wrote, err is "nil" or the error appended to errs
WriteKey(files, jwk, index, pattern, output, ioOK) ==
    LET data == PEM(jwk)
        name == Execute(pattern, index, jwk.kid)
        outFile == Join(output, name.name)
        ch   == Changed(files, jwk, outFile)
        w    == Write(files, outFile, data.data, ioOK)
    IN  IF data.err # "nil" THEN [Skip(files) EXCEPT !.err = data.err]
        ELSE IF output = NoOutput THEN [Skip(files) EXCEPT !.toStderr = <<data.data>>]
        ELSE IF name.err # "nil" THEN [Skip(files) EXCEPT !.err = "template execution failed"]
        ELSE IF ch.err # "nil" THEN [Skip(files) EXCEPT !.err = "error comparing keys"]
        ELSE IF ~ch.changed THEN Skip(files)
        ELSE IF w.err # "nil" THEN [Skip(files) EXCEPT !.err = "writing key failed"]
        ELSE [Skip(files) EXCEPT !.files = w.files, !.wrote = <<outFile>>]

-----------------------------------------------------------------------------
(* The invocation: flags, PreRun, flag groups, Run. *)

\* the key sets GetJWKS can return: up to MaxKeys keys, no key twice
KeySets == {s \in SeqsUpTo(Keys, MaxKeys) : \A a, b \in 1 .. Len(s) : a # b => s[a] # s[b]}

\* the output directory before the first run: empty, or holding a file "a.pem"
\* that cannot be read
InitFiles ==
    {[p \in {} |-> [readable |-> TRUE, data |-> <<>>]],
     [p \in {Join(OutDir, <<"a", ".pem">>)} |-> [readable |-> FALSE, data |-> <<0>>]]}

NoSignalTest == [arg |-> <<>>, err |-> "none", before |-> 0]

NoFiles == [p \in {} |-> [readable |-> TRUE, data |-> <<>>]]

\* a JWK on which Bytes was never called: data is nil (cached = FALSE)
NewJWK(k) ==
    [key |-> k, data |-> <<>>, cached |-> FALSE, err |-> "none", res |-> <<>>,
     calls |-> 0, output |-> "none", files |-> NoFiles, printed |-> <<>>]

NoBytesTest == NewJWK(KA)

NoWrites == [dir |-> <<>>, ino |-> <<>>, w |-> <<>>]

NoCron ==
    [phase |-> "none", schedule |-> "", ctx |-> "background", cancelled |-> FALSE,
     started |-> FALSE, shutdown |-> FALSE, err |-> "none", ticks |-> 0, jobs |-> <<>>,
     sent |-> <<>>, changes |-> 0, pidChanges |-> 0]

\* what one iteration of the loop of WriteKeys came to: the error it recorded,
\* "written", "printed" (no output directory) or "unchanged"
Outcome(r) ==
    IF r.err # "nil" THEN r.err
    ELSE IF r.wrote # <<>> THEN "written"
    ELSE IF r.toStderr # <<>> THEN "printed"
    ELSE "unchanged"

\* the outcome is an error appended to errs
IsError(o) == o \notin {"written", "printed", "unchanged"}

\* the loop of WriteKeys leaving at the first key that fails
NextIndex_break(index, len, err) == IF err # "nil" THEN len ELSE index + 1

\* the loop of WriteKeys: every path through its body, "continue" or not, goes
\* on with the next key
NextIndex(index, len, err) == index + 1

\* a is b with some elements left out, in the order of b
RECURSIVE IsSubSeq(_, _)
IsSubSeq(a, b) ==
    IF a = <<>> THEN TRUE
    ELSE IF b = <<>> THEN FALSE
    ELSE IF Head(a) = Head(b) THEN IsSubSeq(Tail(a), Tail(b))
    ELSE IsSubSeq(a, Tail(b))

\* the key set new is the key set old after keys were removed from the JWKS
IsRemoval(new, old) == Len(new) < Len(old) /\ IsSubSeq(new, old)

\* the file WriteKeys compares and writes for the key at index (0-based)
Target(keys, index, pattern, output) ==
    Join(output, Execute(pattern, index, keys[index + 1].kid).name)

\* every key of the set converts and is templated to a file name of its own
OwnNames(keys, pattern, output) ==
    /\ \A a \in 1 .. Len(keys) :
          PEM(keys[a]).err = "nil" /\ Execute(pattern, a - 1, keys[a].kid).err = "nil"
    /\ \A a, b \in 1 .. Len(keys) :
          a # b => Target(keys, a - 1, pattern, output) # Target(keys, b - 1, pattern, output)

NoKeychangedTest ==
    [files |-> [p \in {} |-> [readable |-> TRUE, data |-> <<>>]],
     data |-> <<>>, changed |-> FALSE, err |-> "none"]

Init ==
    /\ c \in CmdLines
    /\ pc = "flags"
    /\ pidfiles \in (IF "reload.pidfile" \in c.given THEN PidFiles
                     ELSE {[exists |-> FALSE, text |-> <<>>]})
    /\ fs \in (IF c.outputDir = OutDir /\ c.outputPattern = PatKeyID
                  /\ c.given \cap ReloadFlags \subseteq {"reload.pid"}
               THEN InitFiles
               ELSE {[p \in {} |-> [readable |-> TRUE, data |-> <<>>]]})
    /\ j = <<>>
    /\ n = 0
    /\ keyChanged = FALSE
    /\ errs = <<>>
    /\ written = <<>>
    /\ reloads = <<>>
    /\ stdout = <<>>
    /\ stderr = <<>>
    /\ runErr = "none"
    /\ runs = 0
    /\ repeat = FALSE
    /\ called = 0
    /\ fs0 = fs
    /\ sig = 1
    /\ sigIn = NoSignalTest
    /\ kc = NoKeychangedTest
    /\ outcome = <<>>
    /\ removal = FALSE
    /\ kb = NoBytesTest
    /\ wr = NoWrites
    /\ cr = NoCron

\* pflag: --reload.signal, when given, goes through signal.Set
ParseFlags ==
    /\ pc = "flags"
    /\ LET r == Set(c.reloadSignal, c.signalArg)
       IN  IF "reload.signal" \notin c.given
           THEN pc' = "prerun" /\ UNCHANGED c
           ELSE /\ c' = [c EXCEPT !.reloadSignal = r.v]
                /\ pc' = IF r.err = "nil" THEN "prerun" ELSE "flagError"
    /\ UNCHANGED <<pidfiles, fs, j, n, keyChanged, errs, written, reloads,
                   stdout, stderr, runErr, runs, repeat, called, fs0, sig, sigIn, kc,
                   outcome, removal, kb, wr, cr>>

\* PreRun without its parse of the pattern
PreRunResult_noParse(cmd, file) ==
    LET fromFile == NewProcessReloaderFromPidfile(file, cmd.reloadSignal)
    IN  IF cmd.reloadPid # 0
        THEN [err |-> "nil", reloader |-> NewProcessReloader(cmd.reloadPid, cmd.reloadSignal)]
        ELSE IF cmd.reloadPidfile # ""
        THEN [err |-> fromFile.err,
              reloader |-> IF fromFile.err = "nil" THEN fromFile.reloader ELSE cmd.reloader]
        ELSE IF cmd.reloadUrl # ""
        THEN [err |-> "nil",
              reloader |-> NewHTTPReloader(cmd.reloadUrl, cmd.reloadMethod, cmd.reloadPayload)]
        ELSE IF cmd.reloadSocket # ""
        THEN [err |-> "nil",
              reloader |-> NewUnixSocketReloader(cmd.reloadSocket, cmd.reloadPayload)]
        ELSE [err |-> "nil", reloader |-> cmd.reloader]

\* rootCommand.PreRun: [err, reloader]
PreRunResult(cmd, file) ==
    LET fromFile == NewProcessReloaderFromPidfile(file, cmd.reloadSignal)
    IN  IF Parse(cmd.outputPattern) # "nil"
        THEN [err |-> "problem parsing pattern", reloader |-> cmd.reloader]
        ELSE IF cmd.reloadPid # 0
        THEN [err |-> "nil", reloader |-> NewProcessReloader(cmd.reloadPid, cmd.reloadSignal)]
        ELSE IF cmd.reloadPidfile # ""
        THEN [err |-> fromFile.err,
              reloader |-> IF fromFile.err = "nil" THEN fromFile.reloader ELSE cmd.reloader]
        ELSE IF cmd.reloadUrl # ""
        THEN [err |-> "nil",
              reloader |-> NewHTTPReloader(cmd.reloadUrl, cmd.reloadMethod, cmd.reloadPayload)]
        ELSE IF cmd.reloadSocket # ""
        THEN [err |-> "nil",
              reloader |-> NewUnixSocketReloader(cmd.reloadSocket, cmd.reloadPayload)]
        ELSE [err |-> "nil", reloader |-> cmd.reloader]

PreRun ==
    /\ pc = "prerun"
    /\ LET r == PreRunResult(c, pidfiles)
       IN  /\ c' = [c EXCEPT !.reloader = r.reloader]
           /\ pc' = IF r.err = "nil" THEN "validate" ELSE "preRunError"
    /\ UNCHANGED <<pidfiles, fs, j, n, keyChanged, errs, written, reloads,
                   stdout, stderr, runErr, runs, repeat, called, fs0, sig, sigIn, kc,
                   outcome, removal, kb, wr, cr>>

\* cobra validates the flag groups between PreRun and Run
Validate ==
    /\ pc = "validate"
    /\ pc' = IF ValidateFlagGroups(c.given) = "nil" THEN "run" ELSE "flagGroupError"
    /\ UNCHANGED <<c, pidfiles, fs, j, n, keyChanged, errs, written, reloads,
                   stdout, stderr, runErr, runs, repeat, called, fs0, sig, sigIn, kc,
                   outcome, removal, kb, wr, cr>>

\* rootCommand.Run, up to the loop of WriteKeys: GetJWKS fails or returns a key
\* set; WriteKeys parses the pattern and starts its loop.  Until here j and
\* runErr hold the key set and the result of the run before.
Fetch ==
    /\ pc = "run"
    /\ runs' = runs + 1
    /\ n' = 0
    /\ keyChanged' = FALSE
    /\ written' = <<>>
    /\ reloads' = <<>>
    /\ stdout' = <<>>
    /\ stderr' = <<>>
    /\ \/ /\ j' = <<>>
          /\ errs' = <<>>
          /\ runErr' = "problem fetching JWKS"
          /\ pc' = "done"
       \/ /\ j' \in KeySets
          /\ IF Parse(c.outputPattern) # "nil"
             THEN /\ errs' = <<"pattern could not be parsed">>
                  /\ runErr' = "problem processing keys"
                  /\ pc' = "done"
             ELSE /\ errs' = <<>>
                  /\ runErr' = "none"
                  /\ pc' = "loop"
    /\ repeat' = (runs > 0 /\ runErr = "nil" /\ pc' = "loop" /\ j' = j)
    /\ removal' = (runs > 0 /\ runErr = "nil" /\ pc' = "loop" /\ IsRemoval(j', j)
                     /\ c.outputDir # NoOutput /\ OwnNames(j, c.outputPattern, c.outputDir))
    /\ outcome' = <<>>
    /\ called' = 0
    /\ fs0' = fs
    /\ UNCHANGED <<c, pidfiles, fs, sig, sigIn, kc, kb, wr, cr>>

\* WriteKeys: one iteration of the loop over the key set
WriteKeysStep ==
    /\ pc = "loop"
    /\ n < Len(j)
    /\ \E ioOK \in BOOLEAN :
         LET r == WriteKey(fs, j[n + 1], n, c.outputPattern, c.outputDir, ioOK)
         IN  /\ fs' = r.files
             /\ errs' = IF r.err = "nil" THEN errs ELSE Append(errs, r.err)
             /\ keyChanged' = (keyChanged \/ r.wrote # <<>>)
             /\ written' = written \o r.wrote
             /\ stdout' = stdout \o r.toStdout
             /\ stderr' = stderr \o r.toStderr
             /\ outcome' = Append(outcome, Outcome(r))
             /\ n' = NextIndex(n, Len(j), r.err)
    /\ UNCHANGED <<c, pidfiles, j, reloads, runErr, runs, pc, repeat, called, fs0,
                   sig, sigIn, kc, removal, kb, wr, cr>>

\* Run without its "no changes to keys" return
AfterWriteKeys_ignoreChanged(changed, errors, reloader) ==
    IF errors # <<>> THEN "error"
    ELSE IF reloader.kind = "none" THEN "noreloader"
    ELSE "reload"

\* what Run does with the result of WriteKeys: "error", "nochange", "noreloader"
\* or "reload"
AfterWriteKeys(changed, errors, reloader) ==
    IF errors # <<>> THEN "error"
    ELSE IF ~changed THEN "nochange"
    ELSE IF reloader.kind = "none" THEN "noreloader"
    ELSE "reload"

\* rootCommand.Run from the return of WriteKeys to its own return
Finish ==
    /\ pc = "loop"
    /\ n = Len(j)
    /\ LET what == AfterWriteKeys(keyChanged, errs, c.reloader)
       IN  IF what = "reload"
           THEN \E connected \in BOOLEAN,
                   status \in (IF c.reloader.kind = "http" THEN HTTPStatuses ELSE {0}) :
                  LET r == ReloaderReload(c.reloader, connected, status)
                  IN  /\ called' = called + 1
                      /\ reloads' = reloads \o r.sent
                      /\ runErr' = r.err
           ELSE /\ called' = called
                /\ reloads' = reloads
                /\ runErr' = IF what = "error" THEN "problem processing keys" ELSE "nil"
    /\ pc' = "done"
    /\ UNCHANGED <<c, pidfiles, fs, j, n, keyChanged, errs, written,
                   stdout, stderr, runs, repeat, fs0, sig, sigIn, kc,
                   outcome, removal, kb, wr, cr>>

\* the command is run again ("can be run periodically"): a new process with
\* the same command line.  Nothing of the process before is left but the files;
\* runErr keeps the result of the run before and, when that run succeeded, j
\* its key set, for what Fetch records about the run before.
NextRun ==
    /\ pc = "done"
    /\ runs < MaxRuns
    /\ c' = [c EXCEPT !.reloadSignal = 1, !.reloader = NoReloader]
    /\ pc' = "flags"
    /\ n' = 0
    /\ keyChanged' = FALSE
    /\ errs' = <<>>
    /\ written' = <<>>
    /\ reloads' = <<>>
    /\ stdout' = <<>>
    /\ stderr' = <<>>
    /\ called' = 0
    /\ outcome' = <<>>
    /\ repeat' = FALSE
    /\ removal' = FALSE
    /\ fs0' = fs
    /\ j' = IF runErr = "nil" THEN j ELSE <<>>
    /\ UNCHANGED <<pidfiles, fs, runErr, runs, sig, sigIn, kc, kb, wr, cr>>

Next == ParseFlags \/ PreRun \/ Validate \/ Fetch \/ WriteKeysStep \/ Finish \/ NextRun

Spec == Init /\ [][Next]_vars

-----------------------------------------------------------------------------
(* WriteKeys as one call, and the command next to a caller of the package. *)

\* the loop of WriteKeys from the key at index on; acc is what the loop has
\* come to so far, ios[i] tells whether the file operations of key i succeed
RECURSIVE WriteKeysFrom(_, _, _, _, _, _)
WriteKeysFrom(acc, keys, index, pattern, output, ios) ==
    IF index >= Len(keys) THEN acc
    ELSE LET r == WriteKey(acc.files, keys[index + 1], index, pattern, output, ios[index + 1])
         IN  WriteKeysFrom([files   |-> r.files,
                            changed |-> acc.changed \/ r.wrote # <<>>,
                            errs    |-> IF r.err = "nil" THEN acc.errs
                                        ELSE Append(acc.errs, r.err),
                            written |-> acc.written \o r.wrote,
                            printed |-> acc.printed \o r.toStderr,
                            outcome |-> Append(acc.outcome, Outcome(r))],
                           keys, NextIndex(index, Len(keys), r.err), pattern, output, ios)

\* j.WriteKeys(pattern, output) on the key set keys:
\* [files, changed, errs, written, printed, outcome]
WriteKeys(files, keys, pattern, output, ios) ==
    LET start == [files |-> files, changed |-> FALSE, errs |-> <<>>, written |-> <<>>,
                  printed |-> <<>>, outcome |-> <<>>]
    IN  IF Parse(pattern) # "nil"
        THEN [start EXCEPT !.errs = <<"pattern could not be parsed">>]
        ELSE WriteKeysFrom(start, keys, 0, pattern, output, ios)

\* a caller of package jwks hands the pattern and output the command refused
\* to WriteKeys itself, with a key set it holds
DirectWriteKeys ==
    /\ pc \in {"preRunError", "flagGroupError"}
    /\ \E keys \in KeySets, ios \in [1 .. MaxKeys -> BOOLEAN] :
         LET r == WriteKeys(fs, keys, c.outputPattern, c.outputDir, ios)
         IN  /\ j' = keys
             /\ n' = Len(r.outcome)
             /\ fs' = r.files
             /\ keyChanged' = r.changed
             /\ errs' = r.errs
             /\ written' = r.written
             /\ stderr' = r.printed
             /\ outcome' = r.outcome
    /\ pc' = "returned"
    /\ UNCHANGED <<c, pidfiles, reloads, stdout, runErr, runs, repeat, called, fs0,
                   sig, sigIn, kc, removal, kb, wr, cr>>

NextPattern ==
    ParseFlags \/ PreRun \/ Validate \/ Fetch \/ WriteKeysStep \/ Finish \/ DirectWriteKeys

SpecPattern == Init /\ [][NextPattern]_vars

-----------------------------------------------------------------------------
(* signal.Set and signal.String on their own. *)

\* every spelling of w in upper and lower case letters
RECURSIVE CaseVariants(_)
CaseVariants(w) ==
    IF w = <<>> THEN {<<>>}
    ELSE {<<ch>> \o r : ch \in {Head(w), ToLowerChar(Head(w))}, r \in CaseVariants(Tail(w))}

SignalNames == {<<"H", "U", "P">>, <<"K", "I", "L", "L">>,
                <<"U", "S", "R", "1">>, <<"U", "S", "R", "2">>}

AcceptedInputs ==
    UNION {CaseVariants(w) \cup CaseVariants(<<"S", "I", "G">> \o w) : w \in SignalNames}

OtherInputs ==
    {<<>>, <<"S", "I", "G">>, <<"T", "E", "R", "M">>, <<"S", "I", "G", "T", "E", "R", "M">>,
     <<"U", "S", "R", "3">>, <<"H", "U", "P", " ">>, <<" ", "H", "U", "P">>,
     <<"S", "I", "G", "S", "I", "G", "H", "U", "P">>, <<"1">>, <<"9">>,
     <<"unknown signal">>}

SignalInputs == AcceptedInputs \cup OtherInputs

IdleRun ==
    /\ c = Defaults
    /\ pc = "idle"
    /\ pidfiles = [exists |-> FALSE, text |-> <<>>]
    /\ fs = [p \in {} |-> [readable |-> TRUE, data |-> <<>>]]
    /\ j = <<>>
    /\ n = 0
    /\ keyChanged = FALSE
    /\ errs = <<>>
    /\ written = <<>>
    /\ reloads = <<>>
    /\ stdout = <<>>
    /\ stderr = <<>>
    /\ runErr = "none"
    /\ runs = 0
    /\ repeat = FALSE
    /\ called = 0
    /\ fs0 = fs
    /\ outcome = <<>>
    /\ removal = FALSE

\* rootCommand.Init sets the flag value to SIGHUP
InitSignal ==
    /\ IdleRun
    /\ sig = Defaults.reloadSignal
    /\ sigIn = NoSignalTest
    /\ kc = NoKeychangedTest
    /\ kb = NoBytesTest
    /\ wr = NoWrites
    /\ cr = NoCron

\* sig.Set(s) for a string s
SignalSet ==
    /\ \E s \in SignalInputs :
         LET r == Set(sig, s)
         IN  /\ sig' = r.v
             /\ sigIn' = [arg |-> s, err |-> r.err, before |-> sig]
    /\ UNCHANGED <<c, pc, pidfiles, fs, j, n, keyChanged, errs, written, reloads,
                   stdout, stderr, runErr, runs, repeat, called, fs0, kc,
                   outcome, removal, kb, wr, cr>>

\* sig.Set(sig.String())
SignalSetString ==
    /\ LET r == Set(sig, String(sig))
       IN  /\ sig' = r.v
           /\ sigIn' = [arg |-> String(sig), err |-> r.err, before |-> sig]
    /\ UNCHANGED <<c, pc, pidfiles, fs, j, n, keyChanged, errs, written, reloads,
                   stdout, stderr, runErr, runs, repeat, called, fs0, kc,
                   outcome, removal, kb, wr, cr>>

NextSignal == SignalSet \/ SignalSetString

SpecSignal == InitSignal /\ [][NextSignal]_vars

-----------------------------------------------------------------------------
(* keychanged on its own. *)

\* the path keychanged is given
Current == << <<"testfile.pem">> >>

Contents == SeqsUpTo(Bytes, MaxLen)

\* the file at Current: missing, unreadable, or readable with some content
FilesAtCurrent ==
    {[p \in {} |-> [readable |-> TRUE, data |-> <<>>]]}
    \cup {[p \in {Current} |-> [readable |-> r, data |-> d]] : r \in BOOLEAN, d \in Contents}

InitKeychanged ==
    /\ IdleRun
    /\ sig = Defaults.reloadSignal
    /\ sigIn = NoSignalTest
    /\ kc \in {[files |-> f, data |-> d, changed |-> FALSE, err |-> "none"] :
                 f \in FilesAtCurrent, d \in Contents}
    /\ kb = NoBytesTest
    /\ wr = NoWrites
    /\ cr = NoCron

\* keychanged(current, data)
CallKeychanged ==
    /\ kc.err = "none"
    /\ LET r == keychanged(kc.files, Current, kc.data)
       IN  kc' = [kc EXCEPT !.changed = r.changed, !.err = r.err]
    /\ UNCHANGED <<c, pc, pidfiles, fs, j, n, keyChanged, errs, written, reloads,
                   stdout, stderr, runErr, runs, repeat, called, fs0, sig, sigIn,
                   outcome, removal, kb, wr, cr>>

NextKeychanged == CallKeychanged

SpecKeychanged == InitKeychanged /\ [][NextKeychanged]_vars

-----------------------------------------------------------------------------
(* JWK.Bytes on its own, and WriteKeys on a set of that one key. *)

\* the "alg" values of a JWK: the six of the switch, none, and three others
Algs == RSAAlgs \cup ECAlgs \cup {"", "HS256", "PS256", "EdDSA"}

\* what jwk.key.Key() can hold
KeyTypes == {"rsa", "rsaPrivate", "ecdsa", "ed25519", "oct"}

BytesKeys ==
    {[kid |-> <<"a">>, alg |-> a, key |-> t, mat |-> m] :
        a \in Algs, t \in KeyTypes, m \in SeqsUpTo(Bytes, MaxLen) \ {<<>>}}

\* the calls of Bytes on one JWK the model follows
MaxCalls == 2

\* jwk.Bytes() on the JWK b: the cached data if there is any, else the
\* conversion, cached when it succeeds
JWKBytes(b) ==
    LET r == KeyBytes(b.key)
    IN  IF b.cached THEN [b EXCEPT !.err = "nil", !.res = b.data, !.calls = @ + 1]
        ELSE IF r.err # "nil" THEN [b EXCEPT !.err = r.err, !.res = <<>>, !.calls = @ + 1]
        ELSE [b EXCEPT !.data = r.data, !.cached = TRUE,
                       !.err = "nil", !.res = r.data, !.calls = @ + 1]

InitBytes ==
    /\ IdleRun
    /\ sig = Defaults.reloadSignal
    /\ sigIn = NoSignalTest
    /\ kc = NoKeychangedTest
    /\ kb \in {NewJWK(k) : k \in BytesKeys}
    /\ wr = NoWrites
    /\ cr = NoCron

\* jwk.Bytes()
CallBytes ==
    /\ kb.calls < MaxCalls
    /\ kb' = JWKBytes(kb)
    /\ UNCHANGED <<c, pc, pidfiles, fs, j, n, keyChanged, errs, written, reloads,
                   stdout, stderr, runErr, runs, repeat, called, fs0, sig, sigIn, kc,
                   outcome, removal, wr, cr>>

\* WriteKeys on the set of this one key, with the default pattern, to the
\* output directory or with no output; the loop works on a copy of the JWK
CallWriteKeys ==
    /\ kb.output = "none"
    /\ \E output \in {NoOutput, OutDir}, ioOK \in BOOLEAN :
         LET r == WriteKey(kb.files, kb.key, 0, PatKeyID, output, ioOK)
         IN  kb' = [kb EXCEPT !.output = IF output = NoOutput THEN "std" ELSE "dir",
                              !.files = r.files,
                              !.printed = r.toStdout \o r.toStderr]
    /\ UNCHANGED <<c, pc, pidfiles, fs, j, n, keyChanged, errs, written, reloads,
                   stdout, stderr, runErr, runs, repeat, called, fs0, sig, sigIn, kc,
                   outcome, removal, wr, cr>>

NextBytes == CallBytes \/ CallWriteKeys

SpecBytes == InitBytes /\ [][NextBytes]_vars

-----------------------------------------------------------------------------
(* JWK.Write step by step: calls of Write in one directory, interleaved.   *)
(* wr.ino are the files (an open file outlives its name), wr.dir the names  *)
(* of the directory, wr.w the callers.                                      *)

\* the callers of Write: goroutines of overlapping runs, or other processes
Writers == {1, 2}

\* the calls of Write each caller makes
MaxWrites == 2

\* the name both callers write to
Dest == "a.pem"

\* the names os.CreateTemp(dir, "key*") can make up: "key" and a random number
TempNames == {"key1", "key2"}

\* the content of Dest before the first Write, when it exists
Previous == PEM(KA2).data

\* the PEM the caller i writes
DataOf(i) == IF i = 1 THEN PEM(KA).data ELSE PEM(KB).data

IdleWriter(i) ==
    [pc |-> "idle", data |-> DataOf(i), tmp |-> "", fd |-> 0, err |-> "none", calls |-> 0]

\* the directory dir with name bound to the file f
Link(dir, name, f) == [x \in DOMAIN dir \cup {name} |-> IF x = name THEN f ELSE dir[x]]

\* the directory dir without name
Unlink(dir, name) == [x \in DOMAIN dir \ {name} |-> dir[x]]

InitWrite ==
    /\ IdleRun
    /\ sig = Defaults.reloadSignal
    /\ sigIn = NoSignalTest
    /\ kc = NoKeychangedTest
    /\ kb = NoBytesTest
    /\ cr = NoCron
    /\ wr \in {[dir |-> [x \in {} |-> 0], ino |-> <<>>,
                 w |-> [i \in Writers |-> IdleWriter(i)]],
                [dir |-> [x \in {Dest} |-> 1], ino |-> <<[data |-> Previous, by |-> 0]>>,
                 w |-> [i \in Writers |-> IdleWriter(i)]]}

\* Write up to os.CreateTemp: a file under a name that does not exist (O_EXCL),
\* or an error when it cannot be created
WriteCreateTemp ==
    /\ \E i \in Writers :
         /\ wr.w[i].pc = "idle"
         /\ wr.w[i].calls < MaxWrites
         /\ \/ \E t \in TempNames \ DOMAIN wr.dir :
                  wr' = [wr EXCEPT !.ino = Append(@, [data |-> <<>>, by |-> i]),
                                   !.dir = Link(@, t, Len(wr.ino) + 1),
                                   !.w[i] = [@ EXCEPT !.pc = "write", !.tmp = t,
                                                      !.fd = Len(wr.ino) + 1,
                                                      !.err = "none", !.calls = @ + 1]]
            \/ wr' = [wr EXCEPT !.w[i] = [@ EXCEPT !.pc = "returned", !.tmp = "", !.fd = 0,
                                                    !.err = "io", !.calls = @ + 1]]
    /\ UNCHANGED <<c, pc, pidfiles, fs, j, n, keyChanged, errs, written, reloads,
                   stdout, stderr, runErr, runs, repeat, called, fs0, sig, sigIn, kc,
                   outcome, removal, kb, cr>>

\* f.Write(data): all of data reaches the open file, or a part and an error
WriteData ==
    /\ \E i \in Writers :
         /\ wr.w[i].pc = "write"
         /\ \/ wr' = [wr EXCEPT !.ino[wr.w[i].fd].data = wr.w[i].data,
                                  !.w[i].pc = "close"]
            \/ wr' = [wr EXCEPT !.ino[wr.w[i].fd].data = SubSeq(wr.w[i].data, 1, 1),
                                  !.w[i].pc = "defer", !.w[i].err = "io"]
    /\ UNCHANGED <<c, pc, pidfiles, fs, j, n, keyChanged, errs, written, reloads,
                   stdout, stderr, runErr, runs, repeat, called, fs0, sig, sigIn, kc,
                   outcome, removal, kb, cr>>

\* f.Close()
WriteClose ==
    /\ \E i \in Writers, ok \in BOOLEAN :
         /\ wr.w[i].pc = "close"
         /\ wr' = [wr EXCEPT !.w[i].pc = IF ok THEN "rename" ELSE "defer",
                              !.w[i].err = IF ok THEN "none" ELSE "io"]
    /\ UNCHANGED <<c, pc, pidfiles, fs, j, n, keyChanged, errs, written, reloads,
                   stdout, stderr, runErr, runs, repeat, called, fs0, sig, sigIn, kc,
                   outcome, removal, kb, cr>>

\* os.Rename(tempName, name): the file that tempName names now takes the place
\* of name in one step; an error when tempName names nothing or the rename fails
WriteRename ==
    /\ \E i \in Writers, ok \in BOOLEAN :
         /\ wr.w[i].pc = "rename"
         /\ IF ok /\ wr.w[i].tmp \in DOMAIN wr.dir
            THEN wr' = [wr EXCEPT !.dir = Unlink(Link(@, Dest, wr.dir[wr.w[i].tmp]),
                                                 wr.w[i].tmp),
                                  !.w[i].pc = "defer", !.w[i].err = "nil"]
            ELSE wr' = [wr EXCEPT !.w[i].pc = "defer", !.w[i].err = "io"]
    /\ UNCHANGED <<c, pc, pidfiles, fs, j, n, keyChanged, errs, written, reloads,
                   stdout, stderr, runErr, runs, repeat, called, fs0, sig, sigIn, kc,
                   outcome, removal, kb, cr>>

\* the deferred function: f.Close(), os.Remove(tempName); Write returns
WriteDeferred ==
    /\ \E i \in Writers :
         /\ wr.w[i].pc = "defer"
         /\ wr' = [wr EXCEPT !.dir = Unlink(@, wr.w[i].tmp),
                              !.w[i].pc = "returned"]
    /\ UNCHANGED <<c, pc, pidfiles, fs, j, n, keyChanged, errs, written, reloads,
                   stdout, stderr, runErr, runs, repeat, called, fs0, sig, sigIn, kc,
                   outcome, removal, kb, cr>>

\* the caller goes on to its next call of Write
WriteAgain ==
    /\ \E i \in Writers :
         /\ wr.w[i].pc = "returned"
         /\ wr.w[i].calls < MaxWrites
         /\ wr' = [wr EXCEPT !.w[i].pc = "idle"]
    /\ UNCHANGED <<c, pc, pidfiles, fs, j, n, keyChanged, errs, written, reloads,
                   stdout, stderr, runErr, runs, repeat, called, fs0, sig, sigIn, kc,
                   outcome, removal, kb, cr>>

NextWrite ==
    WriteCreateTemp \/ WriteData \/ WriteClose \/ WriteRename \/ WriteDeferred \/ WriteAgain

SpecWrite == InitWrite /\ [][NextWrite]_vars

-----------------------------------------------------------------------------
(* Cron mode: the cron command, its scheduler, and the executions of the    *)
(* root command's Run that the scheduler starts.  An execution is followed  *)
(* step by step: the fetch, for each key the comparison and the write, and  *)
(* the reload; the executions share the files, the command and the pid file.*)

\* the ticks of the schedule the model follows
MaxTicks == 2

\* the times the pid file is rewritten while the command runs
MaxPidChanges == 1

\* the command lines of cron mode: an output directory with a pid file, a pid
\* or no reload option
CronCmdLines ==
    {Out(Pidfile(Defaults, "pidfile"), OutDir), Out(Pid(Defaults, 7), OutDir),
     Out(Defaults, OutDir)}

\* --schedule: a crontab pattern, or a string that is none
Schedules == {"15 1 * * 0", "often"}

\* gocron.CronJob(pattern, false) in NewJob: the pattern has to parse
ValidSchedule(pattern) == pattern = "15 1 * * 0"

\* the contexts cronCommand.Run is given: Execute passes context.Background(),
\* which is never cancelled; another caller may pass one that can be
Contexts == {"background", "cancellable"}

\* what the pid file holds over time: the process it names is restarted
CronPidFiles == PidFiles \cup {[exists |-> TRUE, text |-> <<"8">>]}

\* the key sets the scheduled executions fetch
CronKeySets == {<<KA>>, <<KA2>>, <<KH, KA>>}

\* an execution of Run that the scheduler has just started
StartedRun == [pc |-> "fetch", j |-> <<>>, n |-> 0, keyChanged |-> FALSE, errs |-> <<>>,
               err |-> "none"]

\* a scheduler whose job is in singleton mode: no execution while one is running
Starts_singleton(jobs) == \A i \in 1 .. Len(jobs) : jobs[i].pc = "done"

\* a scheduler that gives its job up once an execution has returned an error
Starts_untilError(jobs) == \A i \in 1 .. Len(jobs) : jobs[i].err \in {"none", "nil"}

\* whether the scheduler starts the task at a tick, given the executions so
\* far: the job is added with no option, so every tick starts the task in a
\* goroutine of its own, whatever became of the earlier executions
Starts(jobs) == TRUE

\* an execution of Run that has returned err
DoneJob(job, err) ==
    [pc |-> "done", j |-> job.j, n |-> job.n, keyChanged |-> job.keyChanged,
     errs |-> job.errs, err |-> err]

Running == {i \in 1 .. Len(cr.jobs) : cr.jobs[i].pc # "done"}

\* the body of the loop of WriteKeys up to the call of Write: the error
\* recorded, "printed", "unchanged", or "changed" when Write is called next
CompareKey(files, jwk, index, pattern, output) ==
    LET data == PEM(jwk)
        name == Execute(pattern, index, jwk.kid)
        ch   == Changed(files, jwk, Join(output, name.name))
    IN  IF data.err # "nil" THEN data.err
        ELSE IF output = NoOutput THEN "printed"
        ELSE IF name.err # "nil" THEN "template execution failed"
        ELSE IF ch.err # "nil" THEN "error comparing keys"
        ELSE IF ~ch.changed THEN "unchanged"
        ELSE "changed"

InitCron ==
    /\ c \in CronCmdLines
    /\ pc = "idle"
    /\ pidfiles \in (IF "reload.pidfile" \in c.given THEN PidFiles
                     ELSE {[exists |-> FALSE, text |-> <<>>]})
    /\ fs = NoFiles
    /\ j = <<>>
    /\ n = 0
    /\ keyChanged = FALSE
    /\ errs = <<>>
    /\ written = <<>>
    /\ reloads = <<>>
    /\ stdout = <<>>
    /\ stderr = <<>>
    /\ runErr = "none"
    /\ runs = 0
    /\ repeat = FALSE
    /\ called = 0
    /\ fs0 = fs
    /\ sig = Defaults.reloadSignal
    /\ sigIn = NoSignalTest
    /\ kc = NoKeychangedTest
    /\ outcome = <<>>
    /\ removal = FALSE
    /\ kb = NoBytesTest
    /\ wr = NoWrites
    /\ cr \in {[NoCron EXCEPT !.phase = "prerun", !.schedule = sch, !.ctx = ctx] :
                 sch \in Schedules, ctx \in Contexts}

\* the root command's PreRun, which runs before the cron command's own
CronPreRun ==
    /\ cr.phase = "prerun"
    /\ LET r == PreRunResult(c, pidfiles)
       IN  /\ c' = [c EXCEPT !.reloader = r.reloader]
           /\ cr' = IF r.err = "nil" THEN [cr EXCEPT !.phase = "run"]
                     ELSE [cr EXCEPT !.phase = "returned", !.err = r.err]
    /\ UNCHANGED <<pc, pidfiles, fs, j, n, keyChanged, errs, written, reloads,
                   stdout, stderr, runErr, runs, repeat, called, fs0, sig, sigIn, kc,
                   outcome, removal, kb, wr>>

\* cronCommand.Run up to s.Start(): cobra's flag groups, then the scheduler
\* and its job; an error of NewJob is returned
CronStart ==
    /\ cr.phase = "run"
    /\ cr' = IF ValidateFlagGroups(c.given) # "nil"
              THEN [cr EXCEPT !.phase = "returned", !.err = "flag groups"]
              ELSE IF ~ValidSchedule(cr.schedule)
              THEN [cr EXCEPT !.phase = "returned", !.err = "invalid schedule"]
              ELSE [cr EXCEPT !.phase = "waiting", !.started = TRUE]
    /\ UNCHANGED <<c, pc, pidfiles, fs, j, n, keyChanged, errs, written, reloads,
                   stdout, stderr, runErr, runs, repeat, called, fs0, sig, sigIn, kc,
                   outcome, removal, kb, wr>>

\* a tick of the schedule while the scheduler runs
Tick ==
    /\ cr.phase = "waiting"
    /\ cr.ticks < MaxTicks
    /\ cr' = [cr EXCEPT !.ticks = @ + 1,
                         !.jobs = IF Starts(cr.jobs) THEN Append(@, StartedRun) ELSE @]
    /\ UNCHANGED <<c, pc, pidfiles, fs, j, n, keyChanged, errs, written, reloads,
                   stdout, stderr, runErr, runs, repeat, called, fs0, sig, sigIn, kc,
                   outcome, removal, kb, wr>>

\* Run: GetJWKS fails, or returns a key set and WriteKeys starts its loop
JobFetch ==
    /\ cr.phase = "waiting"
    /\ \E i \in Running :
         /\ cr.jobs[i].pc = "fetch"
         /\ \/ cr' = [cr EXCEPT !.jobs[i] = DoneJob(@, "problem fetching JWKS")]
            \/ \E keys \in CronKeySets :
                  cr' = [cr EXCEPT !.jobs[i] = [@ EXCEPT !.pc = "compare", !.j = keys]]
    /\ UNCHANGED <<c, pc, pidfiles, fs, j, n, keyChanged, errs, written, reloads,
                   stdout, stderr, runErr, runs, repeat, called, fs0, sig, sigIn, kc,
                   outcome, removal, kb, wr>>

\* WriteKeys: the loop body for the key at n, up to the call of Write
JobCompare ==
    /\ cr.phase = "waiting"
    /\ \E i \in Running :
         LET job == cr.jobs[i]
             o   == CompareKey(fs, job.j[job.n + 1], job.n, c.outputPattern, c.outputDir)
         IN  /\ job.pc = "compare"
             /\ job.n < Len(job.j)
             /\ cr' = IF o = "changed" THEN [cr EXCEPT !.jobs[i].pc = "write"]
                       ELSE [cr EXCEPT !.jobs[i].n = NextIndex(job.n, Len(job.j),
                                                               IF IsError(o) THEN o ELSE "nil"),
                                       !.jobs[i].errs = IF IsError(o) THEN Append(@, o) ELSE @]
    /\ UNCHANGED <<c, pc, pidfiles, fs, j, n, keyChanged, errs, written, reloads,
                   stdout, stderr, runErr, runs, repeat, called, fs0, sig, sigIn, kc,
                   outcome, removal, kb, wr>>

\* WriteKeys: jwk.Write(outFile) for the key at n, and the rest of the loop body
JobWrite ==
    /\ cr.phase = "waiting"
    /\ \E i \in Running, ioOK \in BOOLEAN :
         LET job == cr.jobs[i]
             w   == Write(fs, Target(job.j, job.n, c.outputPattern, c.outputDir),
                          PEM(job.j[job.n + 1]).data, ioOK)
         IN  /\ job.pc = "write"
             /\ fs' = w.files
             /\ cr' = [cr EXCEPT
                        !.jobs[i].pc = "compare",
                        !.jobs[i].n = NextIndex(job.n, Len(job.j), w.err),
                        !.jobs[i].errs = IF w.err # "nil" THEN Append(@, "writing key failed")
                                         ELSE @,
                        !.jobs[i].keyChanged = @ \/ w.err = "nil",
                        !.changes = IF w.files # fs THEN @ + 1 ELSE @]
    /\ UNCHANGED <<c, pc, pidfiles, j, n, keyChanged, errs, written, reloads,
                   stdout, stderr, runErr, runs, repeat, called, fs0, sig, sigIn, kc,
                   outcome, removal, kb, wr>>

\* Run from the return of WriteKeys to its own return, the reload included;
\* the reload is recorded with what the pid file holds at that moment
JobFinish ==
    /\ cr.phase = "waiting"
    /\ \E i \in Running :
         LET job  == cr.jobs[i]
             what == AfterWriteKeys(job.keyChanged, job.errs, c.reloader)
         IN  /\ job.pc = "compare"
             /\ job.n = Len(job.j)
             /\ IF what = "reload"
                THEN \E delivered \in BOOLEAN :
                       LET r == ReloaderReload(c.reloader, delivered, 0)
                       IN  cr' = [cr EXCEPT
                                    !.jobs[i] = DoneJob(@, r.err),
                                    !.sent = @ \o [k \in 1 .. Len(r.sent) |->
                                                     [job |-> i, event |-> r.sent[k],
                                                      pidfile |-> pidfiles]]]
                ELSE cr' = [cr EXCEPT
                              !.jobs[i] = DoneJob(@, IF what = "error"
                                                     THEN "problem processing keys"
                                                     ELSE "nil")]
    /\ UNCHANGED <<c, pc, pidfiles, fs, j, n, keyChanged, errs, written, reloads,
                   stdout, stderr, runErr, runs, repeat, called, fs0, sig, sigIn, kc,
                   outcome, removal, kb, wr>>

\* the process named by the pid file is restarted, or the file is removed or
\* spoiled, while the command runs
PidfileChange ==
    /\ cr.phase = "waiting"
    /\ c.reloadPidfile # ""
    /\ cr.pidChanges < MaxPidChanges
    /\ pidfiles' \in CronPidFiles \ {pidfiles}
    /\ cr' = [cr EXCEPT !.pidChanges = @ + 1]
    /\ UNCHANGED <<c, pc, fs, j, n, keyChanged, errs, written, reloads,
                   stdout, stderr, runErr, runs, repeat, called, fs0, sig, sigIn, kc,
                   outcome, removal, kb, wr>>

\* the context given to cronCommand.Run is cancelled by its owner
Cancel ==
    /\ cr.phase = "waiting"
    /\ cr.ctx = "cancellable"
    /\ ~cr.cancelled
    /\ cr' = [cr EXCEPT !.cancelled = TRUE]
    /\ UNCHANGED <<c, pc, pidfiles, fs, j, n, keyChanged, errs, written, reloads,
                   stdout, stderr, runErr, runs, repeat, called, fs0, sig, sigIn, kc,
                   outcome, removal, kb, wr>>

\* cronCommand.Run after <-ctx.Done(): s.Shutdown() waits for the executions
\* in progress and returns an error when they outlast its timeout
CronShutdown ==
    /\ cr.phase = "waiting"
    /\ cr.cancelled
    /\ cr' = [cr EXCEPT !.phase = "returned", !.shutdown = TRUE,
                         !.err = IF Running = {} THEN "nil" ELSE "stop jobs timed out"]
    /\ UNCHANGED <<c, pc, pidfiles, fs, j, n, keyChanged, errs, written, reloads,
                   stdout, stderr, runErr, runs, repeat, called, fs0, sig, sigIn, kc,
                   outcome, removal, kb, wr>>

NextCron ==
    \/ CronPreRun \/ CronStart \/ Tick \/ JobFetch \/ JobCompare \/ JobWrite \/ JobFinish
    \/ PidfileChange \/ Cancel \/ CronShutdown

SpecCron == InitCron /\ [][NextCron]_vars

-----------------------------------------------------------------------------
(* Properties of a run. *)

\* a run has returned after fetching a key set
RunReturned == pc = "done" /\ runErr # "problem fetching JWKS"

\* the key k at index has a PEM, a file name, and files holds that PEM there
MatchesDisk(files, k, index) ==
    LET data == PEM(k)
        name == Execute(c.outputPattern, index, k.kid)
        outFile == Join(c.outputDir, name.name)
    IN  /\ data.err = "nil"
        /\ name.err = "nil"
        /\ Exists(files, outFile)
        /\ files[outFile].readable
        /\ files[outFile].data = data.data

\* every key of the fetched set matches its file in files
AllMatch(files) ==
    /\ c.outputDir # NoOutput
    /\ \A i \in 1 .. Len(j) : MatchesDisk(files, j[i], i - 1)

\* C1: in every run with a reloader configured in which WriteKeys wrote at least
\* one key file, Run calls the reload exactly once, whatever happened to the
\* other keys of the set.
C1_ReloadOncePerWritingRun ==
    (pc = "done" /\ c.reloader.kind # "none" /\ written # <<>>) => called = 1

\* C2: a reload happens only in a run in which WriteKeys wrote a key file; a
\* run in which every key's PEM matches the file on disk at its start performs
\* no reload and returns nil.
C2_ReloadOnlyAfterWrite ==
    /\ (called > 0 \/ reloads # <<>>) => written # <<>>
    /\ (RunReturned /\ AllMatch(fs0)) =>
          /\ called = 0
          /\ reloads = <<>>
          /\ runErr = "nil"

\* a run with a reloader configured found both keys of its set on disk
C2_Witness ==
    /\ RunReturned
    /\ Len(j) = 2
    /\ AllMatch(fs0)
    /\ c.reloader.kind # "none"

\* C3: with an output directory, a run that fetches the key set of the run
\* before it, which returned nil, writes no file, leaves keyChanged false and
\* reloads nothing, for every key set and every pattern.
C3_RepeatedRunWritesNothing ==
    (pc = "done" /\ repeat /\ c.outputDir # NoOutput) =>
        /\ written = <<>>
        /\ ~keyChanged
        /\ called = 0

RECURSIVE ConvertiblePEMs(_)
ConvertiblePEMs(keys) ==
    IF keys = <<>> THEN <<>>
    ELSE (IF PEM(Head(keys)).err = "nil" THEN <<PEM(Head(keys)).data>> ELSE <<>>)
         \o ConvertiblePEMs(Tail(keys))

\* C5: with no output directory, WriteKeys prints the PEM of every convertible
\* key to standard output.
C5_PemOnStdout ==
    (RunReturned /\ c.outputDir = NoOutput) => stdout = ConvertiblePEMs(j)

\* C6: with the pattern "k{{ .Index }}.pem" and a set of two keys, the files
\* written are k1.pem and k2.pem in the output directory.
C6_IndexCountsFromOne ==
    (RunReturned /\ c.outputPattern = PatIndex /\ c.outputDir = OutDir
       /\ Len(j) = 2 /\ Len(written) = 2) =>
        written = <<Join(OutDir, <<"k", "1", ".pem">>), Join(OutDir, <<"k", "2", ".pem">>)>>

\* C7: every file a run creates or replaces lies inside the output directory,
\* whatever key IDs the key set carries.
C7_WritesStayInOutputDir ==
    \A p \in DOMAIN fs :
        (p \notin DOMAIN fs0 \/ fs[p] # fs0[p]) => Inside(p, c.outputDir)

\* the option the configured reloader was built from
ReloaderMatchesFlags ==
    CASE c.reloader.kind = "process" -> c.reloadPid # 0 \/ c.reloadPidfile # ""
      [] c.reloader.kind = "http"    -> c.reloadUrl # "" /\ c.reloader.target = c.reloadUrl
      [] c.reloader.kind = "socket"  -> c.reloadSocket # "" /\ c.reloader.target = c.reloadSocket
      [] OTHER                       -> TRUE

\* C8: the reload options are mutually exclusive: a run starts only with at
\* most one of them given, its reloader is the one of that option, a run uses
\* one reload mechanism at most once, and with no reload option there is no
\* reloader and no reload.
C8_OneReloader ==
    /\ pc \in {"run", "loop", "done"} => Cardinality(c.given \cap ReloadFlags) <= 1
    /\ pc \in {"validate", "run", "loop", "done"} => ReloaderMatchesFlags
    /\ called <= 1
    /\ Len(reloads) <= 1
    /\ pc = "done" => \A i \in 1 .. Len(reloads) : reloads[i].kind = c.reloader.kind
    /\ (c.given \cap ReloadFlags = {}) =>
          /\ c.reloader.kind = "none"
          /\ called = 0
          /\ reloads = <<>>

\* a run reloaded through the Unix socket, the only reload option given
C8_Witness ==
    /\ pc = "done"
    /\ called = 1
    /\ c.given \cap ReloadFlags = {"reload.socket"}
    /\ Len(reloads) = 1
    /\ reloads[1].kind = "socket"

SigPrefixed(w) == <<"S", "I", "G">> \o w

\* C9: the signal defaults to SIGHUP; Set accepts HUP, KILL, USR1 and USR2 with
\* or without the SIG prefix in any letter case; for any other string it
\* returns an error and leaves the value as it was; Set(String(s)) gives s.
C9_SignalSet ==
    /\ sigIn = NoSignalTest => String(sig) = SigPrefixed(<<"H", "U", "P">>)
    /\ sigIn.err # "none" =>
          /\ \A w \in SignalNames :
                sigIn.arg \in CaseVariants(w) \cup CaseVariants(SigPrefixed(w)) =>
                    /\ sigIn.err = "nil"
                    /\ String(sig) = SigPrefixed(w)
          /\ sigIn.arg \notin AcceptedInputs =>
                /\ sigIn.err # "nil"
                /\ sig = sigIn.before
          /\ sigIn.arg = String(sigIn.before) =>
                /\ sigIn.err = "nil"
                /\ sig = sigIn.before

\* Set took "sigUsr2" while the value was SIGKILL
C9_Witness ==
    /\ sigIn.arg = <<"s", "i", "g", "U", "s", "r", "2">>
    /\ sigIn.before = 9
    /\ sigIn.err = "nil"
    /\ sig = 12

\* C10 as stated: an HTTP reload sends one request to --reload.url with the
\* method of --reload.method and succeeds if and only if the status is 200.
C10_AlwaysOneRequest ==
    (pc = "done" /\ called = 1 /\ c.reloader.kind = "http") =>
        /\ Len(reloads) = 1
        /\ reloads[1].target = c.reloadUrl
        /\ reloads[1].arg = c.reloadMethod
        /\ runErr = "nil" <=> reloads[1].status = 200

\* C10: the method is POST unless --reload.method is given; an HTTP reload whose
\* request can be built sends one request to --reload.url with that method, one
\* whose request cannot be built sends none; Reload and the run return nil if
\* and only if a request was sent and the response status is 200.
C10_HTTPReload ==
    /\ "reload.method" \notin c.given => c.reloadMethod = "POST"
    /\ (pc = "done" /\ called = 1 /\ c.reloader.kind = "http") =>
          /\ ValidMethod(c.reloadMethod) =>
                /\ Len(reloads) = 1
                /\ reloads[1].target = c.reloadUrl
                /\ reloads[1].arg = c.reloadMethod
          /\ ~ValidMethod(c.reloadMethod) => reloads = <<>>
          /\ runErr = "nil" <=> (reloads # <<>> /\ reloads[1].status = 200)

\* an HTTP reload got the status 204 and the run returned an error
C10_Witness ==
    /\ pc = "done"
    /\ called = 1
    /\ c.reloader.kind = "http"
    /\ Len(reloads) = 1
    /\ reloads[1].status = 204
    /\ runErr = "bad response code"

-----------------------------------------------------------------------------
(* Properties of WriteKeys and of what it leaves on disk. *)

\* Run has returned after WriteKeys went through its loop
LoopDone == pc = "done" /\ runErr # "problem fetching JWKS"

\* C12: WriteKeys goes through every key of the set even when earlier keys
\* fail: a key whose conversion or template fails has that error recorded, the
\* errors returned are the errors of the keys that failed, in order (none, and
\* a nil error, iff no key failed), and changed is true iff a key file was
\* written in this call.
C12_WriteKeysContinues ==
    /\ pc = "loop" => Len(outcome) = n
    /\ LoopDone =>
          /\ Len(outcome) = Len(j)
          /\ \A i \in 1 .. Len(j) :
                /\ PEM(j[i]).err # "nil" => outcome[i] = PEM(j[i]).err
                /\ (PEM(j[i]).err = "nil" /\ c.outputDir # NoOutput
                      /\ Execute(c.outputPattern, i - 1, j[i].kid).err # "nil")
                     => outcome[i] = "template execution failed"
          /\ errs = SelectSeq(outcome, IsError)
          /\ errs # <<>> <=> runErr = "problem processing keys"
          /\ keyChanged <=> \E i \in 1 .. Len(outcome) : outcome[i] = "written"
          /\ keyChanged <=> written # <<>>

\* the write of the first key failed and the second key was written
C12_Witness ==
    /\ LoopDone
    /\ outcome = <<"writing key failed", "written">>
    /\ keyChanged
    /\ Len(errs) = 1

\* the files WriteKeys compares and writes for the keys of the fetched set
Targets ==
    {Target(j, i - 1, c.outputPattern, c.outputDir) :
        i \in {k \in 1 .. Len(j) : /\ PEM(j[k]).err = "nil"
                                    /\ Execute(c.outputPattern, k - 1, j[k].kid).err = "nil"}}

\* the files that this run created, replaced or deleted
Touched ==
    {p \in DOMAIN fs \cup DOMAIN fs0 :
        p \notin DOMAIN fs \/ p \notin DOMAIN fs0 \/ fs[p] # fs0[p]}

\* C16 as stated: a run touches only the target files of the keys of its set
\* and deletes nothing, and a run that fetches the set of the run before less
\* some keys (every key of that set with a file name of its own, that run
\* returning nil) reports no change and leaves every file as it was.
C16_RemovalNeverReportsChange ==
    /\ Touched \subseteq Targets
    /\ DOMAIN fs0 \subseteq DOMAIN fs
    /\ (pc = "done" /\ removal) =>
          /\ ~keyChanged
          /\ fs = fs0

\* C16: a run creates or replaces only the target files of the keys of its set
\* and deletes nothing, so a file that is the target of no key of the set (the
\* file of a removed key) stays as it was; and a run in which every key of the
\* set finds its PEM in its target file reports no change and touches nothing,
\* whatever other files are on disk.
C16_FrameEffect ==
    /\ Touched \subseteq Targets
    /\ DOMAIN fs0 \subseteq DOMAIN fs
    /\ \A p \in DOMAIN fs0 : p \notin Targets => fs[p] = fs0[p]
    /\ (RunReturned /\ AllMatch(fs0)) =>
          /\ ~keyChanged
          /\ fs = fs0

\* a run fetched the set of the run before less one key, reported no change,
\* and the file of the removed key is still on disk
C16_Witness ==
    /\ pc = "done"
    /\ removal
    /\ Len(j) = 1
    /\ AllMatch(fs0)
    /\ ~keyChanged
    /\ \E p \in DOMAIN fs : p \notin Targets /\ fs[p] = fs0[p]

\* the algorithm of the key is one of the six and its key has the matching type
Convertible(k) ==
    \/ k.alg \in {"RS256", "RS384", "RS512"} /\ k.key = "rsa"
    \/ k.alg \in {"ES256", "ES384", "ES512"} /\ k.key = "ecdsa"

\* C13: Bytes converts a key only if its algorithm is one of RS256, RS384,
\* RS512, ES256, ES384, ES512 and its key has the matching RSA or ECDSA public
\* key type; for every other key, one with no algorithm included, it returns
\* ErrUnsupportedAlgorithm, ErrNotRSAPublicKey or ErrNotECDSAPublicKey and
\* caches nothing, and WriteKeys neither writes nor prints such a key.
C13_SupportedAlgorithms ==
    /\ kb.err = "nil" => Convertible(kb.key)
    /\ (kb.err # "none" /\ ~Convertible(kb.key)) =>
          /\ kb.err = (IF kb.key.alg \in {"RS256", "RS384", "RS512"} THEN "ErrNotRSAPublicKey"
                        ELSE IF kb.key.alg \in {"ES256", "ES384", "ES512"}
                        THEN "ErrNotECDSAPublicKey"
                        ELSE "ErrUnsupportedAlgorithm")
          /\ kb.res = <<>>
          /\ ~kb.cached
    /\ ~Convertible(kb.key) =>
          /\ kb.files = NoFiles
          /\ kb.printed = <<>>

\* Bytes failed twice on a key with no algorithm and WriteKeys was called with
\* an output directory
C13_Witness ==
    /\ kb.key.alg = ""
    /\ kb.key.key = "rsa"
    /\ kb.calls = 2
    /\ kb.err = "ErrUnsupportedAlgorithm"
    /\ kb.output = "dir"

\* C14: an unparsable pattern is refused early: PreRun fails, the command
\* never gets to Run, so it fetches no JWKS, writes no file and reloads
\* nothing; WriteKeys called with an unparsable pattern returns false and the
\* "pattern could not be parsed" error and writes no file.
C14_UnparsablePatternEarly ==
    Parse(c.outputPattern) # "nil" =>
        /\ pc \in {"flags", "prerun", "preRunError", "returned"}
        /\ runs = 0
        /\ called = 0
        /\ reloads = <<>>
        /\ written = <<>>
        /\ fs = fs0
        /\ pc # "returned" => j = <<>>
        /\ pc = "returned" =>
              /\ ~keyChanged
              /\ errs = <<"pattern could not be parsed">>
              /\ outcome = <<>>

\* PreRun refused the pattern, and WriteKeys was then called with it, an output
\* directory and two keys that convert
C14_Witness ==
    /\ pc = "returned"
    /\ c.outputPattern = PatUnparsed
    /\ c.outputDir = OutDir
    /\ j = <<KA, KB>>

\* what a reader finds at Dest
AtDest == IF Dest \in DOMAIN wr.dir THEN wr.ino[wr.dir[Dest]].data ELSE <<>>

\* C15: Write replaces the destination atomically: at every point, under every
\* interleaving with another Write to the same name, the destination is
\* absent, holds its previous content or holds a complete new PEM; a Write
\* that returns an error has not put its file in the destination's place; and
\* once Write has returned, the temporary file it created is under no "key*"
\* name of the directory.
C15_WriteIsAtomic ==
    /\ Dest \in DOMAIN wr.dir => AtDest \in {Previous} \cup {DataOf(i) : i \in Writers}
    /\ \A i \in Writers :
          wr.w[i].pc = "returned" =>
              /\ (wr.w[i].err # "nil" /\ wr.w[i].fd # 0 /\ Dest \in DOMAIN wr.dir)
                    => wr.dir[Dest] # wr.w[i].fd
              /\ \A t \in TempNames \cap DOMAIN wr.dir : wr.dir[t] # wr.w[i].fd

\* C17: keychanged returns a nil error for every path and data: (true, nil)
\* for a missing file, and for a file that exists and cannot be hashed the
\* comparison of the hash of data with the zero hash; so for a key whose PEM
\* conversion succeeds Changed returns a nil error and WriteKeys does not take
\* its "error comparing keys" branch.
C17_KeychangedNeverFails ==
    /\ kc.err # "none" =>
          /\ kc.err = "nil"
          /\ ~Exists(kc.files, Current) => kc.changed
          /\ (Exists(kc.files, Current) /\ ~kc.files[Current].readable) =>
                (kc.changed <=> Sum(kc.data) # <<0, 0>>)
          /\ \A k \in Keys :
                PEM(k).err = "nil" => Changed(kc.files, k, Current).err = "nil"

\* keychanged compared data with a file that exists and cannot be read
C17_Witness ==
    /\ kc.err = "nil"
    /\ Exists(kc.files, Current)
    /\ ~kc.files[Current].readable
    /\ kc.data # <<>>
    /\ kc.changed

-----------------------------------------------------------------------------
(* Properties of cron mode. *)

\* C11: in cron mode, once the scheduler is started, every tick of the
\* schedule starts one execution of Run, also after an execution has returned
\* an error; the error of an execution is not the cron command's; and the
\* cron command returns only after its context was cancelled, through the
\* shutdown of the scheduler.
C11_CronDaemon ==
    /\ Len(cr.jobs) = cr.ticks
    /\ cr.ticks > 0 => cr.started
    /\ (cr.started /\ ~cr.cancelled) => cr.phase = "waiting"
    /\ (cr.started /\ cr.phase = "returned") =>
          /\ cr.cancelled
          /\ cr.shutdown
          /\ cr.err \in {"nil", "stop jobs timed out"}

\* the first execution returned an error, the second, started by the next
\* tick, wrote and returned nil, and the command returned after the cancel
C11_Witness ==
    /\ cr.phase = "returned"
    /\ cr.shutdown
    /\ Len(cr.jobs) = 2
    /\ cr.jobs[1].err = "problem processing keys"
    /\ cr.jobs[2].err = "nil"
    /\ cr.jobs[2].keyChanged

\* C18: in cron mode at most one execution of Run is in progress at any time,
\* so two executions never compare and write the same key file concurrently,
\* and there are never more reloads than changes of a key file.
C18_AtMostOneRunning ==
    /\ Cardinality(Running) <= 1
    /\ Len(cr.sent) <= cr.changes

\* C19: with --reload.pidfile every signal goes to the PID the pid file holds
\* at the moment of that reload; when the file is missing or holds no number
\* at that moment, no signal is sent.
C19_PidfileReadAtReload ==
    c.reloadPidfile # "" =>
        \A k \in 1 .. Len(cr.sent) :
            LET f == cr.sent[k].pidfile
                a == Atoi(TrimSpace(f.text))
            IN  /\ f.exists
                /\ a.err = "nil"
                /\ cr.sent[k].event.target = ToString(a.v)

=============================================================================
